---- MODULE Spec2Model ----
(***************************************************************************)
(* The protein tools client: the two React components (SequenceGenerator,  *)
(* SMILESPredictor), the App that mounts one of them, and the two utility  *)
(* functions generateSimilarSequences / predictSMILES with their backend   *)
(* health check, POST and mock fallback.                                   *)
(*                                                                         *)
(* A JavaScript string is a sequence of one-character strings.  A score is *)
(* kept in hundredths (2.5 is 250), the precision the component displays.  *)
(***************************************************************************)
EXTENDS Integers, Sequences, FiniteSets, TLC

\* ------------------------------------------------------------------ bounds

\* The required sequence length: 50 in the source, scaled down.
SEQ_LEN == 2
\* The number of sequences the mock generates and the k of the top-k list:
\* 5 in the source, scaled down.
NUM_SEQUENCES == 2
\* Longest text an input-change event carries.
MAX_TYPED == 3
\* Most candidates the backend's generator hands to its ranker.
MAX_CANDIDATES == 3
\* Most requests of one component instance the model lets be in flight.
MAX_REQUESTS == 2
\* Most requests of unmounted component instances still running.
MAX_ORPHANS == 1
\* Longest of the strings mockPredictSMILES is given one and all.
MAX_HASHED == 2
\* Most clipboard writes of the mounted component awaiting an answer.
MAX_COPIES == 1
\* Most timers set to clear the success message and not yet fired.
MAX_TIMERS == 1

\* --------------------------------------------------------------- alphabets

validAminoAcids ==
    {"A","C","D","E","F","G","H","I","K","L","M","N","P","Q","R","S","T","V","W","Y"}

\* Characters the user types: a residue, a lower-case residue, a non-residue.
TypedChars == {"A", "c", "x"}
\* Characters of the strings handed to the exported functions directly.
ApiChars == {"A", "C", "X"}
\* The residues the mock's random index picks among.
RandomResidues == {"C"}
\* The scores 2.5 + Math.random() * 1.5 takes in the model, in hundredths.
MockScores == {250, 399}

Min(a, b) == IF a < b THEN a ELSE b

\* The strings of at most n characters, at most one of them an "A": a string
\* the mock mutates (towards RandomResidues) then has few variants.
Strings(chars, n) ==
    {s \in UNION {[1..k -> chars] : k \in 0..n} :
        Cardinality({i \in DOMAIN s : s[i] = "A"}) <= 1}

\* String.prototype.toUpperCase on one character.
toUpperCase(ch) ==
    CASE ch = "c" -> "C"
      [] ch = "x" -> "X"
      [] OTHER -> ch

\* str.split('').filter(char => !validAminoAcids.includes(char))
invalidChars(str) == SelectSeq(str, LAMBDA ch : ch \notin validAminoAcids)

\* ----------------------------------------------------------------- errors

NoError == [message |-> "", chars |-> <<>>]
LengthError ==
    [message |-> "Protein sequence must be exactly 50 characters long", chars |-> <<>>]
\* `Invalid amino acid characters found: ${invalidChars.join(', ')}`
InvalidCharsError(bad) ==
    [message |-> "Invalid amino acid characters found: ", chars |-> bad]

\* An argument of an exported function: undefined/null, or a string.
Missing == [missing |-> TRUE, chars |-> <<>>]
Str(chars) == [missing |-> FALSE, chars |-> chars]

\* A faulty variant: the character check is left out.
ValidationErrorLengthOnly(arg) ==
    IF arg.missing \/ Len(arg.chars) = 0 \/ Len(arg.chars) # SEQ_LEN
    THEN LengthError
    ELSE NoError

\* The validation both exported functions start with; NoError when it passes.
ValidationError(arg) ==
    IF arg.missing \/ Len(arg.chars) = 0 \/ Len(arg.chars) # SEQ_LEN
    THEN LengthError
    ELSE IF Len(invalidChars(arg.chars)) > 0
         THEN InvalidCharsError(invalidChars(arg.chars))
         ELSE NoError

\* ---------------------------------------------------- mockPredictSMILES

commonSMILES ==
    << "CC(C)CC1=CC=C(C=C1)C(C)C(=O)O",
       "CC1=CC=C(C=C1)C2=CC(=O)C3=C(C=CC=C3O2)O",
       "CC1=CC=C(C=C1)C2=CC(=O)C3=C(C=CC=C3O2)O",
       "CC1=CC=C(C=C1)C2=CC(=O)C3=C(C=CC=C3O2)O",
       "CC1=CC=C(C=C1)C2=CC(=O)C3=C(C=CC=C3O2)O",
       "CC1=CC=C(C=C1)C2=CC(=O)C3=C(C=CC=C3O2)O",
       "CC1=CC=C(C=C1)C2=CC(=O)C3=C(C=CC=C3O2)O",
       "CC1=CC=C(C=C1)C2=CC(=O)C3=C(C=CC=C3O2)O",
       "CC1=CC=C(C=C1)C2=CC(=O)C3=C(C=CC=C3O2)O",
       "CC1=CC=C(C=C1)C2=CC(=O)C3=C(C=CC=C3O2)O" >>

Letters ==
    << "A","B","C","D","E","F","G","H","I","J","K","L","M",
       "N","O","P","Q","R","S","T","U","V","W","X","Y","Z" >>

\* b.charCodeAt(0) of an upper-case letter.
charCodeAt(ch) == 64 + (CHOOSE i \in 1..Len(Letters) : Letters[i] = ch)

\* A 32-bit integer as its two 16-bit halves (two's complement).
HALF == 65536
Int32Zero == [hi |-> 0, lo |-> 0]

\* a = ((a << 5) - a) + b.charCodeAt(0); return a & a;
\* that is a * 31 + code, truncated to 32 bits.
hashStep(a, ch) ==
    LET low == a.lo * 31 + charCodeAt(ch)
        high == a.hi * 31 + (low \div HALF)
    IN  [hi |-> high % HALF, lo |-> low % HALF]

RECURSIVE hashReduce(_, _)
hashReduce(a, str) ==
    IF Len(str) = 0 THEN a ELSE hashReduce(hashStep(a, Head(str)), Tail(str))

\* A faulty variant: the absolute value is taken in 32 bits, where the
\* minimum value is its own negation, and % keeps the dividend's sign.
absMod10Int32(a) ==
    LET u == (a.hi * 6 + a.lo) % 10
    IN  IF a.hi = HALF \div 2 /\ a.lo = 0 THEN 0 - 8
        ELSE IF a.hi >= HALF \div 2 THEN (6 + 10 - u) % 10 ELSE u

\* Math.abs(hash) % 10 of the signed value of a: 2^32 % 10 = 6, 2^16 % 10 = 6.
absMod10(a) ==
    LET u == (a.hi * 6 + a.lo) % 10
    IN  IF a.hi >= HALF \div 2 THEN (6 + 10 - u) % 10 ELSE u

\* commonSMILES[index]: undefined when index is no index of the array.
mockPredictSMILES(proteinSequence) ==
    LET index == absMod10(hashReduce(Int32Zero, proteinSequence))
    IN  IF index + 1 \in DOMAIN commonSMILES
        THEN commonSMILES[index + 1]
        ELSE "undefined"

\* Sequences of residues whose hash is the least 32-bit value, -1 and the
\* greatest 32-bit value.
HashesToMin ==
    << "C", "L", "Y", "C", "V", "I", "S", "M" >>
HashesToMinusOne ==
    << "K", "W", "V", "G", "E", "F", "H", "I" >>
HashesToMax ==
    << "C", "L", "Y", "C", "V", "I", "S", "L" >>

Prefixes(str) == {SubSeq(str, 1, n) : n \in 0..Len(str)}

\* The strings mockPredictSMILES is applied to: every string of residues up
\* to MAX_HASHED long, and the three sequences above with their prefixes.
MockInputs ==
    UNION {[1..n -> validAminoAcids] : n \in 0..MAX_HASHED}
    \cup Prefixes(HashesToMin) \cup Prefixes(HashesToMinusOne)
    \cup Prefixes(HashesToMax)

\* ------------------------------------------------ mockGenerateSequences

\* baseSequence.split('').map(...): each position keeps its character or,
\* with Math.random() < 0.1, takes a random residue.
ModifiedSequences(baseSequence) ==
    {m \in [1..Len(baseSequence) ->
                {baseSequence[p] : p \in 1..Len(baseSequence)} \cup RandomResidues] :
        \A p \in 1..Len(baseSequence) :
            m[p] = baseSequence[p] \/ m[p] \in RandomResidues}

Entries(baseSequence) ==
    [sequence : ModifiedSequences(baseSequence), score : MockScores]

\* A faulty variant: the loop runs once more (i <= 5).
MockDrawsOneMore(baseSequence) == [1..(NUM_SEQUENCES + 1) -> Entries(baseSequence)]

\* What the loop pushes, in order: one entry per iteration, each the outcome
\* of that iteration's Math.random() calls.
MockDraws(baseSequence) == [1..NUM_SEQUENCES -> Entries(baseSequence)]

\* A faulty variant: the comparator is a.score - b.score.
RECURSIVE InsertAscending(_, _)
InsertAscending(sorted, e) ==
    IF Len(sorted) = 0 THEN <<e>>
    ELSE IF Head(sorted).score <= e.score
         THEN <<Head(sorted)>> \o InsertAscending(Tail(sorted), e)
         ELSE <<e>> \o sorted

RECURSIVE SortAscending(_)
SortAscending(list) ==
    IF Len(list) = 0 THEN <<>>
    ELSE InsertAscending(SortAscending(SubSeq(list, 1, Len(list) - 1)), list[Len(list)])

\* Array.prototype.sort with (a, b) => b.score - a.score: a stable sort,
\* here by insertion; an entry goes after the entries that do not score less.
RECURSIVE InsertByScore(_, _)
InsertByScore(sorted, e) ==
    IF Len(sorted) = 0 THEN <<e>>
    ELSE IF Head(sorted).score >= e.score
         THEN <<Head(sorted)>> \o InsertByScore(Tail(sorted), e)
         ELSE <<e>> \o sorted

RECURSIVE SortByScore(_)
SortByScore(list) ==
    IF Len(list) = 0 THEN <<>>
    ELSE InsertByScore(SortByScore(SubSeq(list, 1, Len(list) - 1)), list[Len(list)])

mockGenerateSequences(sequences) == SortByScore(sequences)

\* ------------------------------------------- the backend's ranker (spec)

\* BLOSUM62 on the residues the model uses.
SubstitutionMatrix(x, y) ==
    CASE x = "A" /\ y = "A" -> 4
      [] x = "C" /\ y = "C" -> 9
      [] OTHER -> 0

RECURSIVE Similarity(_, _)
Similarity(reference, candidate) ==
    IF Len(reference) = 0 THEN 0
    ELSE SubstitutionMatrix(Head(reference), Head(candidate))
         + Similarity(Tail(reference), Tail(candidate))

\* A matrix sum as a score in hundredths.
ScoreOf(reference, candidate) == 100 * Similarity(reference, candidate)

\* Where entry i of list stands once the list is ordered by descending score,
\* ties in candidate order: after the entries that score more and the
\* earlier entries that score the same.
Place(list, i) ==
    1 + Cardinality({j \in 1..Len(list) :
                        \/ list[j].score > list[i].score
                        \/ list[j].score = list[i].score /\ j < i})

\* rank, steps 3 and 4: the k best, best first, ties in candidate order.
TopK(list, k) ==
    [p \in 1..Min(k, Len(list)) |->
        list[CHOOSE i \in 1..Len(list) : Place(list, i) = p]]

\* rank, steps 1 and 2: a ScoredCandidate for each candidate, in order.
Scored(reference, candidates) ==
    [i \in 1..Len(candidates) |->
        [sequence |-> candidates[i], score |-> ScoreOf(reference, candidates[i])]]

\* rank(reference, candidates, k)
rank(reference, candidates, k) == TopK(Scored(reference, candidates), k)

\* The candidate lists the backend's generator may produce for a reference.
CandidateLists(reference) ==
    UNION {[1..n -> ModifiedSequences(reference)] : n \in 0..MAX_CANDIDATES}

\* A SMILES string the backend's model may answer.
BackendSmiles == {"CCO"}

\* ------------------------------------------------------------------ state

VARIABLES
    currentPage,         \* App: 'smiles' or 'sequences'
    proteinSequence,     \* the mounted component's input
    generatedSequences,  \* SequenceGenerator's result list
    smilesResult,        \* SMILESPredictor's result string
    isLoading,
    error,
    success,
    copies,              \* navigator.clipboard.writeText calls awaiting an answer
    timers,              \* setTimeout(() => setSuccess(''), 3000) not yet fired
    resultOf,            \* the proteinSequence the stored result was awaited for
    reqs,                \* calls of the exported functions awaiting a response
    orphans,             \* calls whose component instance was unmounted
    apiFn,               \* the exported function a direct caller calls
    apiArg,              \* its argument
    last                 \* what the direct caller's last call settled with

uiVars ==
    <<currentPage, proteinSequence, generatedSequences, smilesResult,
      isLoading, error, success, copies, timers, resultOf>>
vars ==
    <<currentPage, proteinSequence, generatedSequences, smilesResult,
      isLoading, error, success, copies, timers, resultOf,
      reqs, orphans, apiFn, apiArg, last>>

Functions == {"predictSMILES", "generateSimilarSequences"}

\* The component's error state: '' or a message, with the Error it quotes.
NoUiError == [text |-> "", detail |-> NoError]
PleaseEnter ==
    [text |-> "Please enter exactly 50 amino acid characters.", detail |-> NoError]
Failed(fn, err) ==
    [text |-> IF fn = "generateSimilarSequences"
              THEN "Generation failed: " ELSE "Prediction failed: ",
     detail |-> err]
FailedToCopy == [text |-> "Failed to copy to clipboard", detail |-> NoError]
CopiedMessage(page) ==
    IF page = "sequences"
    THEN "Sequence copied to clipboard!"
    ELSE "SMILES copied to clipboard!"
SuccessMessage(fn) ==
    IF fn = "generateSimilarSequences"
    THEN "Successfully generated 5 similar protein sequences!"
    ELSE "SMILES prediction completed successfully!"

\* How a call settles. via and candidates record where the value came from:
\* the mock or the backend, and the scored list, in the order it was
\* produced, that was then sorted.
Resolved(seqs, smiles, via, cands) ==
    [type |-> "resolved", sequences |-> seqs, smiles |-> smiles,
     error |-> NoError, via |-> via, candidates |-> cands]
Rejected(err) ==
    [type |-> "rejected", sequences |-> <<>>, smiles |-> "",
     error |-> err, via |-> "none", candidates |-> <<>>]

NoCall ==
    [status |-> "none", type |-> "none", sequences |-> <<>>, smiles |-> "",
     error |-> NoError, via |-> "none", candidates |-> <<>>,
     fetched |-> <<>>, cause |-> ""]

Settled(out, fetched, cause) ==
    [status |-> "done", type |-> out.type, sequences |-> out.sequences,
     smiles |-> out.smiles, error |-> out.error, via |-> out.via,
     candidates |-> out.candidates, fetched |-> fetched, cause |-> cause]

\* A call that passed validation and sent GET /health.
NewRequest(owner, fn, chars) ==
    [owner |-> owner, fn |-> fn, arg |-> chars, pc |-> "health",
     fetched |-> <<"GET /health">>, cause |-> ""]

InitialComponent ==
    /\ proteinSequence = <<>>
    /\ generatedSequences = <<>>
    /\ smilesResult = ""
    /\ isLoading = FALSE
    /\ error = NoUiError
    /\ success = ""
    /\ copies = 0
    /\ timers = 0
    /\ resultOf = Missing

Init ==
    /\ currentPage = "smiles"
    /\ InitialComponent
    /\ reqs = <<>>
    /\ orphans = 0
    /\ apiFn = "generateSimilarSequences"
    /\ apiArg = Missing
    /\ last = NoCall

ApiInputs == {Missing} \cup {Str(s) : s \in Strings(ApiChars, SEQ_LEN + 1)}

ApiInit ==
    /\ currentPage = "smiles"
    /\ InitialComponent
    /\ reqs = <<>>
    /\ orphans = 0
    /\ apiFn \in Functions
    /\ apiArg \in ApiInputs
    /\ last = NoCall

MockInit ==
    /\ currentPage = "smiles"
    /\ InitialComponent
    /\ reqs = <<>>
    /\ orphans = 0
    /\ apiFn = "predictSMILES"
    /\ apiArg \in {Str(s) : s \in MockInputs}
    /\ last = NoCall

\* ------------------------------------------------------------- components

\* A faulty variant: .slice(0, 50) is left out.
filteredValueNoSlice(value) ==
    SelectSeq([i \in 1..Len(value) |-> toUpperCase(value[i])],
              LAMBDA ch : ch \in validAminoAcids)

\* e.target.value.toUpperCase().split('').filter(...).join('').slice(0, 50)
filteredValue(value) ==
    LET kept == SelectSeq([i \in 1..Len(value) |-> toUpperCase(value[i])],
                          LAMBDA ch : ch \in validAminoAcids)
    IN  SubSeq(kept, 1, Min(Len(kept), SEQ_LEN))

handleInputChange(value) ==
    /\ proteinSequence' = filteredValue(value)
    /\ error' = NoUiError
    /\ success' = ""
    /\ UNCHANGED <<currentPage, generatedSequences, smilesResult, isLoading,
                   copies, timers, resultOf, reqs, orphans, apiFn, apiArg, last>>

\* A faulty variant: disabled={proteinSequence.length !== 50}.
buttonDisabledLengthOnly == Len(proteinSequence) # SEQ_LEN

\* disabled={isLoading || proteinSequence.length !== 50}
buttonDisabled == isLoading \/ Len(proteinSequence) # SEQ_LEN

\* What follows the await in handleGenerate / handlePredict, for the
\* component that is mounted: the result or the error, then the finally.
Continue(fn, out) ==
    /\ IF out.type = "resolved"
       THEN /\ generatedSequences' =
                 IF fn = "generateSimilarSequences" THEN out.sequences
                 ELSE generatedSequences
            /\ smilesResult' =
                 IF fn = "predictSMILES" THEN out.smiles ELSE smilesResult
            /\ success' = SuccessMessage(fn)
            /\ error' = error
       ELSE /\ error' = Failed(fn, out.error)
            /\ UNCHANGED <<generatedSequences, smilesResult, success>>
    /\ isLoading' = FALSE

\* A click on the button: the handler, to its first await that suspends.
handleClick(fn) ==
    /\ ~buttonDisabled
    /\ Len(reqs) < MAX_REQUESTS
    /\ IF Len(proteinSequence) # SEQ_LEN
       THEN /\ error' = PleaseEnter
            /\ UNCHANGED <<proteinSequence, generatedSequences, smilesResult,
                           isLoading, success, resultOf, reqs>>
       ELSE IF ValidationError(Str(proteinSequence)) # NoError
       THEN \* the call rejects at once: catch, then finally
            /\ error' = Failed(fn, ValidationError(Str(proteinSequence)))
            /\ success' = ""
            /\ generatedSequences' =
                 IF fn = "generateSimilarSequences" THEN <<>> ELSE generatedSequences
            /\ smilesResult' = IF fn = "predictSMILES" THEN "" ELSE smilesResult
            /\ isLoading' = FALSE
            /\ resultOf' = Missing
            /\ UNCHANGED <<proteinSequence, reqs>>
       ELSE /\ isLoading' = TRUE
            /\ error' = NoUiError
            /\ success' = ""
            /\ generatedSequences' =
                 IF fn = "generateSimilarSequences" THEN <<>> ELSE generatedSequences
            /\ smilesResult' = IF fn = "predictSMILES" THEN "" ELSE smilesResult
            /\ reqs' = Append(reqs, NewRequest("ui", fn, proteinSequence))
            /\ resultOf' = Missing
            /\ UNCHANGED proteinSequence
    /\ UNCHANGED <<currentPage, copies, timers, orphans, apiFn, apiArg, last>>

handleGenerate ==
    /\ currentPage = "sequences"
    /\ handleClick("generateSimilarSequences")

handlePredict ==
    /\ currentPage = "smiles"
    /\ handleClick("predictSMILES")

\* copyToClipboard, to its await: a click on a copy button, which the
\* component renders with a result.
copyToClipboard ==
    /\ IF currentPage = "sequences"
       THEN Len(generatedSequences) > 0
       ELSE smilesResult # ""
    /\ copies < MAX_COPIES
    /\ copies' = copies + 1
    /\ UNCHANGED <<currentPage, proteinSequence, generatedSequences,
                   smilesResult, isLoading, error, success, timers, resultOf,
                   reqs, orphans, apiFn, apiArg, last>>

\* writeText resolved: the message, and the timer that will clear it.
clipboardResolves ==
    /\ copies > 0
    /\ timers < MAX_TIMERS
    /\ copies' = copies - 1
    /\ success' = CopiedMessage(currentPage)
    /\ timers' = timers + 1
    /\ UNCHANGED <<currentPage, proteinSequence, generatedSequences,
                   smilesResult, isLoading, error, resultOf,
                   reqs, orphans, apiFn, apiArg, last>>

\* writeText rejected: catch (err).
clipboardRejects ==
    /\ copies > 0
    /\ copies' = copies - 1
    /\ error' = FailedToCopy
    /\ UNCHANGED <<currentPage, proteinSequence, generatedSequences,
                   smilesResult, isLoading, success, timers, resultOf,
                   reqs, orphans, apiFn, apiArg, last>>

\* The 3000 ms timer fires: setSuccess('').
successTimerFires ==
    /\ timers > 0
    /\ timers' = timers - 1
    /\ success' = ""
    /\ UNCHANGED <<currentPage, proteinSequence, generatedSequences,
                   smilesResult, isLoading, error, copies, resultOf,
                   reqs, orphans, apiFn, apiArg, last>>

\* App: a navigation button. The other component is mounted with fresh
\* state; the calls and timers of the unmounted one run on, their setState
\* calls lost.
setCurrentPage(page) ==
    /\ page # currentPage
    /\ orphans + Len(reqs) <= MAX_ORPHANS
    /\ currentPage' = page
    /\ proteinSequence' = <<>>
    /\ generatedSequences' = <<>>
    /\ smilesResult' = ""
    /\ isLoading' = FALSE
    /\ error' = NoUiError
    /\ success' = ""
    /\ copies' = 0
    /\ timers' = 0
    /\ resultOf' = Missing
    /\ orphans' = orphans + Len(reqs)
    /\ reqs' = <<>>
    /\ UNCHANGED <<apiFn, apiArg, last>>

\* A call of an unmounted component settles: nothing is left to update.
orphanSettles ==
    /\ orphans > 0
    /\ orphans' = orphans - 1
    /\ UNCHANGED <<uiVars, reqs, apiFn, apiArg, last>>

\* --------------------------------------------------- the exported functions

\* A direct call of generateSimilarSequences / predictSMILES, the caller
\* awaiting each call before the next.
apiCall ==
    /\ Len(reqs) = 0
    /\ IF ValidationError(apiArg) # NoError
       THEN /\ last' = Settled(Rejected(ValidationError(apiArg)), <<>>, "")
            /\ UNCHANGED reqs
       ELSE /\ reqs' = <<NewRequest("api", apiFn, apiArg.chars)>>
            /\ UNCHANGED last
    /\ UNCHANGED <<uiVars, orphans, apiFn, apiArg>>

\* The call reqs[i] settles with out: its caller goes on.
Deliver(i, out) ==
    /\ reqs' = SubSeq(reqs, 1, i - 1) \o SubSeq(reqs, i + 1, Len(reqs))
    /\ IF reqs[i].owner = "api"
       THEN /\ last' = Settled(out, reqs[i].fetched, reqs[i].cause)
            /\ UNCHANGED uiVars
       ELSE /\ Continue(reqs[i].fn, out)
            /\ resultOf' = IF out.type = "resolved" THEN Str(reqs[i].arg)
                           ELSE resultOf
            /\ UNCHANGED <<currentPage, proteinSequence, copies, timers, last>>
    /\ UNCHANGED <<orphans, apiFn, apiArg>>

HealthResponses ==
    {[threw |-> TRUE, status |-> "", model_loaded |-> FALSE]}
    \cup [threw : {FALSE}, status : {"healthy", "error"}, model_loaded : BOOLEAN]

checkBackendHealth(response) ==
    IF response.threw THEN FALSE
    ELSE response.status = "healthy" /\ response.model_loaded

HealthCause(response) ==
    IF response.threw THEN "health threw"
    ELSE IF response.status # "healthy" THEN "not healthy"
    ELSE IF ~response.model_loaded THEN "model not loaded"
    ELSE "available"

\* const isBackendAvailable = await checkBackendHealth(); then the POST is
\* sent, or the mock's timer is set.
healthSettles(i) ==
    /\ reqs[i].pc = "health"
    /\ \E response \in HealthResponses :
         reqs' = [reqs EXCEPT ![i] =
                    IF checkBackendHealth(response)
                    THEN [@ EXCEPT !.pc = "post",
                                   !.fetched = Append(@, "POST"),
                                   !.cause = HealthCause(response)]
                    ELSE [@ EXCEPT !.pc = "mockWait",
                                   !.cause = HealthCause(response)]]
    /\ UNCHANGED <<uiVars, orphans, apiFn, apiArg, last>>

\* What the POST may settle with: fetch or response.json() throws, a status
\* that is not ok, or the backend's answer.
PostResponses(fn, arg) ==
    {[threw |-> TRUE, ok |-> FALSE, sequences |-> <<>>, smiles |-> "",
      candidates |-> <<>>],
     [threw |-> FALSE, ok |-> FALSE, sequences |-> <<>>, smiles |-> "",
      candidates |-> <<>>]}
    \cup (IF fn = "generateSimilarSequences"
          THEN {[threw |-> FALSE, ok |-> TRUE,
                 sequences |-> rank(arg, c, NUM_SEQUENCES), smiles |-> "",
                 candidates |-> Scored(arg, c)] : c \in CandidateLists(arg)}
          ELSE {[threw |-> FALSE, ok |-> TRUE, sequences |-> <<>>,
                 smiles |-> s, candidates |-> <<>>] : s \in BackendSmiles})

PostCause(response) ==
    IF response.threw THEN "post threw"
    ELSE IF ~response.ok THEN "post not ok"
    ELSE "ok"

\* A faulty variant: the inner try has no catch, the error reaches the caller.
postStepNoCatch(response) ==
    IF response.threw \/ ~response.ok
    THEN [next |-> "throw",
          out |-> Rejected([message |-> "Backend generation failed", chars |-> <<>>])]
    ELSE [next |-> "return",
          out |-> Resolved(response.sequences, response.smiles, "backend",
                           response.candidates)]

\* The inner try: return data.sequences / data.smiles, or catch (apiError)
\* and go on to the mock.
postStep(response) ==
    IF response.threw \/ ~response.ok
    THEN [next |-> "mockWait", out |-> Rejected(NoError)]
    ELSE [next |-> "return",
          out |-> Resolved(response.sequences, response.smiles, "backend",
                           response.candidates)]

postSettles(i) ==
    /\ reqs[i].pc = "post"
    /\ \E response \in PostResponses(reqs[i].fn, reqs[i].arg) :
         IF postStep(response).next = "mockWait"
         THEN /\ reqs' = [reqs EXCEPT ![i] =
                            [@ EXCEPT !.pc = "mockWait",
                                      !.cause = PostCause(response)]]
              /\ UNCHANGED <<uiVars, orphans, apiFn, apiArg, last>>
         ELSE Deliver(i, postStep(response).out)

\* The setTimeout fires: return mockGenerateSequences(proteinSequence) /
\* mockPredictSMILES(proteinSequence).
mockTimerFires(i) ==
    /\ reqs[i].pc = "mockWait"
    /\ IF reqs[i].fn = "generateSimilarSequences"
       THEN \E sequences \in MockDraws(reqs[i].arg) :
              Deliver(i, Resolved(mockGenerateSequences(sequences), "",
                                  "mock", sequences))
       ELSE Deliver(i, Resolved(<<>>, mockPredictSMILES(reqs[i].arg),
                                "mock", <<>>))

\* mockPredictSMILES(proteinSequence), called on its own.
callMockPredictSMILES ==
    /\ last' = Settled(Resolved(<<>>, mockPredictSMILES(apiArg.chars),
                                "mock", <<>>), <<>>, "")
    /\ UNCHANGED <<uiVars, reqs, orphans, apiFn, apiArg>>

RequestStep ==
    \E i \in 1..Len(reqs) :
        \/ healthSettles(i)
        \/ postSettles(i)
        \/ mockTimerFires(i)

\* ---------------------------------------------------------- specifications

TypedTexts == Strings(TypedChars, MAX_TYPED)

Next ==
    \/ \E value \in TypedTexts : handleInputChange(value)
    \/ handleGenerate
    \/ handlePredict
    \/ copyToClipboard
    \/ clipboardResolves
    \/ clipboardRejects
    \/ successTimerFires
    \/ \E page \in {"smiles", "sequences"} : setCurrentPage(page)
    \/ orphanSettles
    \/ \E i \in 1..Len(reqs) : healthSettles(i)
    \/ \E i \in 1..Len(reqs) : postSettles(i)
    \/ \E i \in 1..Len(reqs) : mockTimerFires(i)

\* The components under the App.
Spec == Init /\ [][Next]_vars

ApiNext ==
    \/ apiCall
    \/ \E i \in 1..Len(reqs) : healthSettles(i)
    \/ \E i \in 1..Len(reqs) : postSettles(i)
    \/ \E i \in 1..Len(reqs) : mockTimerFires(i)

\* A direct caller of the exported functions, with any argument.
ApiSpec == ApiInit /\ [][ApiNext]_vars

\* A pending fetch settles and a set timer fires.
FairApiSpec == ApiSpec /\ WF_vars(RequestStep)

MockNext == callMockPredictSMILES

\* mockPredictSMILES on its own, on any string.
MockSpec == MockInit /\ [][MockNext]_vars

\* The components, every pending fetch settling and every set timer firing.
FairSpec ==
    Spec /\ WF_vars(RequestStep) /\ WF_vars(orphanSettles)
         /\ WF_vars(clipboardResolves \/ clipboardRejects)
         /\ WF_vars(successTimerFires)

\* ------------------------------------------------------------------ claims

GenResolved ==
    /\ apiFn = "generateSimilarSequences"
    /\ last.status = "done"
    /\ last.type = "resolved"

\* The argument fails the documented precondition: missing, not SEQ_LEN
\* characters, or a character outside the alphabet.
InvalidInput(arg) ==
    \/ arg.missing
    \/ Len(arg.chars) # SEQ_LEN
    \/ \E i \in 1..Len(arg.chars) : arg.chars[i] \notin validAminoAcids

InvalidPositions(arg) ==
    {i \in 1..Len(arg.chars) : arg.chars[i] \notin validAminoAcids}

\* C1: every entry generateSimilarSequences resolves with carries the score
\* that is the sum over the positions of SubstitutionMatrix[reference[i]]
\* [candidate[i]].
C1_ScoreIsMatrixSum ==
    GenResolved =>
        \A i \in 1..Len(last.sequences) :
            last.sequences[i].score
                = ScoreOf(apiArg.chars, last.sequences[i].sequence)

\* result is a selection of candidates in the order (score descending, then
\* position in candidates ascending).
DescendingStable(result, candidates) ==
    \E p \in [1..Len(result) -> 1..Len(candidates)] :
        /\ \A i \in 1..Len(result) : result[i] = candidates[p[i]]
        /\ \A i, j \in 1..Len(result) :
             i < j =>
                \/ result[i].score > result[j].score
                \/ result[i].score = result[j].score /\ p[i] < p[j]

\* C2: the list generateSimilarSequences resolves with, from the mock or from
\* the backend, is in descending order of score, and entries of equal score
\* keep the order they had in the candidate list.
C2_DescendingStable ==
    GenResolved => DescendingStable(last.sequences, last.candidates)

\* A mock result whose two first entries tie and differ.
C2_Witness ==
    /\ GenResolved
    /\ last.via = "mock"
    /\ Len(last.sequences) >= 2
    /\ last.sequences[1].score = last.sequences[2].score
    /\ last.sequences[1].sequence # last.sequences[2].sequence

\* C3: two calls of generateSimilarSequences with the same argument, the
\* backend out of the picture both times (the same failure seen, the mock
\* answering), settle with the same value: the one a call settles with
\* equals the one the call before it settled with.
C3_SameInputSameOutput ==
    [][(/\ apiFn = "generateSimilarSequences"
        /\ last.status = "done" /\ last'.status = "done"
        /\ last.via = "mock" /\ last'.via = "mock"
        /\ last'.cause = last.cause) =>
          /\ last'.type = last.type
          /\ last'.sequences = last.sequences
          /\ last'.error = last.error]_vars

\* C4: a call whose argument holds a residue outside the alphabet rejects
\* with the invalid-residue error, which names the offending characters and
\* fixes their positions (no argument with other offending positions gets
\* the same error), and it returns no result.
C4_InvalidResidueError ==
    (last.status = "done" /\ ~apiArg.missing /\ InvalidPositions(apiArg) # {}) =>
        /\ last.type = "rejected"
        /\ last.sequences = <<>> /\ last.smiles = ""
        /\ last.error.message = InvalidCharsError(<<>>).message
        /\ \A i \in InvalidPositions(apiArg) :
             \E j \in 1..Len(last.error.chars) : last.error.chars[j] = apiArg.chars[i]
        /\ \A other \in ApiInputs :
             ValidationError(other) = last.error
                => InvalidPositions(other) = InvalidPositions(apiArg)

\* C5: a call with an invalid argument never has a request under way (no
\* GET /health, no POST, no mock timer), and settles rejected with nothing
\* fetched and no result.
C5_ValidationFirst ==
    InvalidInput(apiArg) =>
        /\ reqs = <<>>
        /\ last.status = "done" =>
             /\ last.type = "rejected"
             /\ last.fetched = <<>>
             /\ last.via = "none"
             /\ last.sequences = <<>> /\ last.smiles = ""

\* A call settled whose argument has the right length and a bad character.
C5_Witness ==
    /\ last.status = "done"
    /\ ~apiArg.missing
    /\ Len(apiArg.chars) = SEQ_LEN
    /\ InvalidPositions(apiArg) # {}

FailureCauses ==
    {"health threw", "not healthy", "model not loaded", "post threw", "post not ok"}

\* A value only the mock produces: NUM_SEQUENCES mutated copies of the
\* argument with mock scores, best first; or an entry of commonSMILES.
IsMockOutput ==
    IF apiFn = "generateSimilarSequences"
    THEN /\ Len(last.sequences) = NUM_SEQUENCES
         /\ \A i \in 1..Len(last.sequences) :
              /\ last.sequences[i].sequence \in ModifiedSequences(apiArg.chars)
              /\ last.sequences[i].score \in MockScores
         /\ \A i \in 1..(Len(last.sequences) - 1) :
              last.sequences[i].score >= last.sequences[i + 1].score
    ELSE \E i \in 1..Len(commonSMILES) : last.smiles = commonSMILES[i]

\* How far a pending call is from settling: the awaits still ahead of it.
StepsLeft(r) ==
    CASE r.pc = "health" -> 3
      [] r.pc = "post" -> 2
      [] r.pc = "mockWait" -> 1

RECURSIVE TotalStepsLeft(_)
TotalStepsLeft(rs) ==
    IF Len(rs) = 0 THEN 0 ELSE StepsLeft(Head(rs)) + TotalStepsLeft(Tail(rs))

\* C6: a call with a valid argument never rejects; when the health check
\* threw or reported not healthy or model not loaded, or the POST threw or
\* was not ok, it resolves with the mock's output; and a call under way
\* always has a step to take, every step bringing it nearer to settling, so
\* that it settles once its fetches have settled and its timer has fired.
C6_FallbackResolves ==
    /\ [](( last.status = "done" /\ ~InvalidInput(apiArg)) =>
            /\ last.type = "resolved"
            /\ last.cause \in FailureCauses => IsMockOutput)
    /\ [](reqs # <<>> => ENABLED RequestStep)
    /\ [][reqs # <<>> => TotalStepsLeft(reqs') < TotalStepsLeft(reqs)]_vars

\* C6, as a property of the fair behaviours: every call under way leads to
\* a call resolved.
C6_EventuallyResolves ==
    (reqs # <<>>) ~> (reqs = <<>> /\ last.status = "done" /\ last.type = "resolved")

\* A call that resolved after the POST answered with a status that is not ok.
C6_Witness ==
    /\ last.status = "done"
    /\ last.cause = "post not ok"
    /\ last.type = "resolved"

\* C7: the list has exactly min(k, number of candidates) entries.
C7_ExactlyMinK ==
    GenResolved =>
        Len(last.sequences) = Min(NUM_SEQUENCES, Len(last.candidates))

\* A result of fewer than k entries: there were fewer than k candidates.
C7_Witness ==
    /\ GenResolved
    /\ Len(last.candidates) > 0
    /\ Len(last.candidates) < NUM_SEQUENCES
    /\ Len(last.sequences) = Len(last.candidates)

\* C8: an entry that is the reference itself carries the sum of
\* SubstitutionMatrix[x][x] over the reference's residues, and no entry
\* scores more.
C8_ReferenceFirst ==
    GenResolved =>
        \A i \in 1..Len(last.sequences) :
            last.sequences[i].sequence = apiArg.chars =>
                /\ last.sequences[i].score = ScoreOf(apiArg.chars, apiArg.chars)
                /\ \A j \in 1..Len(last.sequences) :
                     last.sequences[j].score <= last.sequences[i].score

\* C9: the stored proteinSequence holds only residues of the alphabet and at
\* most SEQ_LEN of them, and every request a component started carries a
\* sequence of exactly SEQ_LEN residues.
C9_StoredSequenceValid ==
    /\ \A i \in 1..Len(proteinSequence) : proteinSequence[i] \in validAminoAcids
    /\ Len(proteinSequence) <= SEQ_LEN
    /\ \A i \in 1..Len(reqs) :
         reqs[i].owner = "ui" =>
            /\ Len(reqs[i].arg) = SEQ_LEN
            /\ \A p \in 1..Len(reqs[i].arg) : reqs[i].arg[p] \in validAminoAcids

\* A request under way, and the input since cut down by the user.
C9_Witness ==
    /\ Len(reqs) = 1
    /\ reqs[1].owner = "ui"
    /\ Len(proteinSequence) < SEQ_LEN

\* C10: the mounted component has at most one request in flight, and has one
\* exactly while isLoading is true.
C10_OneRequestInFlight ==
    /\ Len(reqs) <= 1
    /\ isLoading <=> Len(reqs) = 1

\* A request in flight while the input again holds SEQ_LEN residues, other
\* than those the request was started with.
C10_Witness ==
    /\ isLoading
    /\ Len(reqs) = 1
    /\ Len(proteinSequence) = SEQ_LEN
    /\ proteinSequence # reqs[1].arg

\* The 32-bit values a hash is: halves within 16 bits.
IsInt32(a) == a.hi \in 0..(HALF - 1) /\ a.lo \in 0..(HALF - 1)

MinInt32 == [hi |-> HALF \div 2, lo |-> 0]

\* C11: for every input string the hash stays a 32-bit value, the index
\* Math.abs(hash) % 10 lies in 0..9, the least 32-bit value included, and the
\* call returns the entry of commonSMILES at that index; a second call with
\* the same string returns the same SMILES.
C11_MockTotalDeterministic ==
    /\ [](last.status = "done" =>
            LET hash == hashReduce(Int32Zero, apiArg.chars)
            IN  /\ IsInt32(hash)
                /\ absMod10(hash) \in 0..9
                /\ last.type = "resolved"
                /\ \E i \in 1..Len(commonSMILES) : last.smiles = commonSMILES[i]
                /\ last.smiles = commonSMILES[absMod10(hash) + 1])
    /\ [][last.status = "done" => last'.smiles = last.smiles]_vars

\* A call returned for a sequence whose hash is the least 32-bit value.
C11_Witness ==
    /\ last.status = "done"
    /\ apiArg.chars = HashesToMin
    /\ hashReduce(Int32Zero, apiArg.chars) = MinInt32

\* The request of the mounted component finishes: its finally runs.
RequestFinishes == isLoading /\ ~isLoading' /\ currentPage' = currentPage

\* C12: a request started by handleGenerate or handlePredict finishes with
\* isLoading false and exactly one outcome on record: the result stored and
\* the error empty, or the error message set and the stored result still the
\* empty value it was cleared to.
C12_ExactlyOneOutcome ==
    [][RequestFinishes =>
        /\ ~isLoading'
        /\ \/ resultOf' # Missing /\ error' = NoUiError
           \/ /\ error' # NoUiError
              /\ resultOf' = Missing
              /\ generatedSequences' = <<>>
              /\ smilesResult' = ""]_vars

\* C12, the part on the fair behaviours: a component that is loading comes
\* to be not loading.
C12_EventuallyFinishes == isLoading ~> ~isLoading

\* A result is on display: the results-section is rendered.
ResultDisplayed == Len(generatedSequences) > 0 \/ smilesResult # ""

\* C13: whenever a result is displayed and no request is loading, the
\* result was produced from the sequence the input field holds.
C13_ResultMatchesInput ==
    (~isLoading /\ ResultDisplayed) => resultOf = Str(proteinSequence)

====
